---- MODULE Spec2Model ----
(***************************************************************************)
(* Verification model of the vehicle-insurance training pipeline.          *)
(*                                                                         *)
(*  - Spec            TrainPipeline.run_pipeline (pipline/training_pipeline *)
(*                    .py): the orchestrator's control flow.  Every stage  *)
(*                    call is resolved against every result the stage's    *)
(*                    signature admits (an artifact of its declared type,  *)
(*                    or an exception); the logic the components own      *)
(*                    (Transformation's precondition, Evaluation's         *)
(*                    acceptance rule) is computed as the code computes it.*)
(*  - SpecValidation  DataValidation (components/data_validation.py)       *)
(*                    constructed and run on arbitrary train/test frames.  *)
(*  - SpecIngestion   DataIngestion.initiate_data_ingestion on arbitrary   *)
(*                    collections and split ratios.                        *)
(*  - SpecRun         run_pipeline with the Validation stage as written.   *)
(*  - SpecTransformation  initiate_data_transformation step by step, with  *)
(*                    the trainer's slicing and Evaluation's transform.    *)
(*  - SpecTrainer     initiate_model_trainer step by step.                 *)
(*  - SpecFeatures    the feature derivation of Transformation and of      *)
(*                    Evaluation on the same frame.                        *)
(*  - SpecArtifacts   the components one after the other, for the files   *)
(*                    a run leaves behind.                                 *)
(*  - SpecClient      MongoDBClient constructed again and again in one    *)
(*                    process.                                             *)
(*                                                                         *)
(* F1 scores are integers in hundredths (75 stands for 0.75).              *)
(***************************************************************************)
EXTENDS Integers, Sequences, FiniteSets, TLC

VARIABLES
    \* ---- TrainPipeline.run_pipeline ----
    pc,                            \* next statement of run_pipeline
    outcome,                       \* "running" | "returned" | "raised"
    raised_by,                     \* stage whose exception left run_pipeline
    error_message,                 \* message carried by that exception
    invoked,                       \* stages invoked in this run, in order
    data_ingestion_artifact,
    data_validation_artifact,
    data_transformation_artifact,
    model_trainer_artifact,
    evaluate_model_response,
    model_eval_artifact,
    model_pusher_artifact,
    best_model_f1_score,           \* evaluate_model's local of that name
    s3_model,                      \* the external model store's baseline
    run,                           \* number of the current run
    \* ---- DataValidation ----
    dv_self,                       \* the DataValidation object's attributes
    train_df,                      \* columns of the ingested train CSV
    test_df,                       \* columns of the ingested test CSV
    dv_result,                     \* what initiate_data_validation produced
    validation_report,             \* the JSON report file
    \* ---- DataIngestion ----
    source,                        \* the document store's collection
    test_size,                     \* train_test_split_ratio, in percent
    ing_files,                     \* feature store, train and test CSV
    ing_log,                       \* what initiate_data_ingestion did, in order
    ing_result,                    \* what initiate_data_ingestion produced
    \* ---- DataTransformation, and what reads its files ----
    tr_input,                      \* validation artifact, train and test frame
    tr_log,                        \* I/O and fitting done, in order
    tr_files,                      \* preprocessing.pkl, train.npy, test.npy
    tr_final,                      \* the resampled features and targets
    tr_result,                     \* what initiate_data_transformation produced
    mt_sliced,                     \* x_train, y_train, x_test, y_test of the trainer
    ev_preprocessing,              \* the transformer Evaluation loaded and applied
    \* ---- ModelTrainer ----
    mt_config,                     \* model_train_config
    mt_log,                        \* I/O and fitting done, in order
    mt_locals,                     \* metric and training accuracy once computed
    mt_model_file,                 \* trained_model_file_path
    mt_result,                     \* what initiate_model_trainer produced
    \* ---- feature derivation of Transformation and of Evaluation ----
    fx_df,                         \* the held-out feature frame
    fx_schema,                     \* the schema's drop_columns
    fx_transformation,             \* frame after DataTransformation's steps
    fx_evaluation,                 \* frame after ModelEvaluation's steps
    \* ---- MongoDBClient ----
    mc_client,                     \* the class attribute MongoDBClient.client
    mc_created,                    \* pymongo.MongoClient objects created so far
    mc_instances,                  \* the MongoDBClient instances built, in order
    mc_last                        \* how the latest construction ended

pipeline_vars == <<pc, outcome, raised_by, error_message, invoked,
                   data_ingestion_artifact, data_validation_artifact,
                   data_transformation_artifact, model_trainer_artifact,
                   evaluate_model_response, model_eval_artifact,
                   model_pusher_artifact, best_model_f1_score, s3_model, run>>

validation_vars == <<dv_self, train_df, test_df, dv_result, validation_report>>

ingestion_vars == <<source, test_size, ing_files, ing_log, ing_result>>

transformation_vars == <<tr_input, tr_log, tr_files, tr_final, tr_result,
                         mt_sliced, ev_preprocessing>>

trainer_vars == <<mt_config, mt_log, mt_locals, mt_model_file, mt_result>>

features_vars == <<fx_df, fx_schema, fx_transformation, fx_evaluation>>

client_vars == <<mc_client, mc_created, mc_instances, mc_last>>

stage_vars == <<transformation_vars, trainer_vars, features_vars, client_vars>>

extra_vars == <<ingestion_vars, stage_vars>>

vars == <<pipeline_vars, validation_vars, extra_vars>>

-----------------------------------------------------------------------------
(* Bounds and input domains *)

\* Number of pipeline runs (process invocations) explored.
MaxRuns == 2

\* Representative F1 scores, in hundredths.
F1Values == {0, 1, 75, 80, 100}

\* Most records the document store's collection holds.
MaxRows == 4

\* Test fractions, in percent.
TestSizes == {1, 20, 25, 50, 99}

\* Column names a CSV header may hold.
ColumnUniverse == {"id", "Gender", "Age", "Vehicle_Age", "Response", "_id"}

-----------------------------------------------------------------------------
(* Artifacts (src.entity.artifact_entity), as run_pipeline uses them *)

NoMessage == <<>>

NoIngestionArtifact == [present |-> FALSE, trained_file_path |-> "", test_file_path |-> ""]

NoValidationArtifact == [present |-> FALSE, validation_status |-> FALSE, message |-> NoMessage]

NoTransformationArtifact == [present |-> FALSE, transformed_object_file_path |-> ""]

NoTrainerArtifact == [present |-> FALSE, trained_model_file_path |-> "", f1_score |-> 0]

NoEvaluateModelResponse ==
    [present |-> FALSE, trained_model_f1_score |-> 0, best_model_f1_score |-> 0,
     is_model_accepted |-> FALSE, difference |-> 0]

NoEvaluationArtifact ==
    [present |-> FALSE, is_model_accepted |-> FALSE, changed_accuracy |-> 0]

NoPusherArtifact == [present |-> FALSE, s3_model_path |-> ""]

\* Optional[float] / Optional[Proj1Estimator]
None == [present |-> FALSE, value |-> 0]

Some(v) == [present |-> TRUE, value |-> v]

StageOrder == <<"Ingest", "Validate", "Transform", "Train", "Evaluate", "Promote">>

-----------------------------------------------------------------------------
(* ModelEvaluation (components/model_evaluation.py) *)

\* get_best_model: the estimator when is_model_present says the key exists,
\* else None.
GetBestModel(store) == IF store.present THEN Some(store.value) ELSE None

TempBestModelF1Score_One(best) == IF ~best.present THEN 1 ELSE best.value

\* line 130: temp_best_model_f1_score = 0 if best_model_f1_score is None else ...
TempBestModelF1Score(best) == IF ~best.present THEN 0 ELSE best.value

EvaluateModel_AcceptTies(trained_model_f1_score, best) ==
    LET temp_best_model_f1_score == TempBestModelF1Score(best)
    IN  [present |-> TRUE,
         trained_model_f1_score |-> trained_model_f1_score,
         best_model_f1_score |-> temp_best_model_f1_score,
         is_model_accepted |-> trained_model_f1_score >= temp_best_model_f1_score,
         difference |-> trained_model_f1_score - temp_best_model_f1_score]

\* lines 119-138: the EvaluateModelResponse built from the trainer's F1 and
\* the baseline's F1 (None when no baseline is deployed).
EvaluateModel(trained_model_f1_score, best) ==
    LET temp_best_model_f1_score == TempBestModelF1Score(best)
    IN  [present |-> TRUE,
         trained_model_f1_score |-> trained_model_f1_score,
         best_model_f1_score |-> temp_best_model_f1_score,
         is_model_accepted |-> IF trained_model_f1_score > temp_best_model_f1_score
                               THEN TRUE ELSE FALSE,
         difference |-> trained_model_f1_score - temp_best_model_f1_score]

\* initiate_model_evaluation, lines 150-160: the artifact copies the response.
InitiateModelEvaluation(response) ==
    [present |-> TRUE,
     is_model_accepted |-> response.is_model_accepted,
     changed_accuracy |-> response.difference]

-----------------------------------------------------------------------------
(* DataTransformation (components/data_transformation.py) *)

StageFailure == <<"stage failure">>

\* initiate_data_transformation: lines 108-109 raise with the validation
\* message before anything is read; the rest (read, encode, fit, resample,
\* save) either completes or raises (rest_ok).
InitiateDataTransformation(validation_artifact, rest_ok) ==
    IF ~validation_artifact.validation_status
    THEN [raised |-> TRUE, error |-> validation_artifact.message,
          artifact |-> NoTransformationArtifact]
    ELSE IF ~rest_ok
    THEN [raised |-> TRUE, error |-> StageFailure,
          artifact |-> NoTransformationArtifact]
    ELSE [raised |-> FALSE, error |-> NoMessage,
          artifact |-> [present |-> TRUE,
                        transformed_object_file_path |-> "preprocessing.pkl"]]

-----------------------------------------------------------------------------
(* ModelTrainer (components/model_trainer.py) *)

ThresholdFailure == <<"No model found with accuracy above the expected threshold">>

\* initiate_model_trainer: load + fit may raise (fit_ok); line 101 raises when
\* the training accuracy is below expected_accuracy; else the artifact carries
\* the held-out weighted F1.
InitiateModelTrainer(fit_ok, below_expected_accuracy, f1) ==
    IF ~fit_ok
    THEN [raised |-> TRUE, error |-> StageFailure, artifact |-> NoTrainerArtifact]
    ELSE IF below_expected_accuracy
    THEN [raised |-> TRUE, error |-> ThresholdFailure, artifact |-> NoTrainerArtifact]
    ELSE [raised |-> FALSE, error |-> NoMessage,
          artifact |-> [present |-> TRUE, trained_model_file_path |-> "model.pkl",
                        f1_score |-> f1]]

-----------------------------------------------------------------------------
(* ModelPusher: the object store's put(key, bundle) overwrites the baseline *)

ModelPusherUpload(store, bundle) == Some(bundle)

-----------------------------------------------------------------------------
(* Results a DataValidation stage call can hand to run_pipeline *)

MsgTrain == "Columns are missing in training dataframe. "

MsgTest == "Columns are missing in test dataframe. "

MsgTestLast == "Columns are missing in test dataframe."

DataValidationArtifacts ==
    { [present |-> TRUE, validation_status |-> TRUE, message |-> NoMessage],
      [present |-> TRUE, validation_status |-> FALSE, message |-> <<MsgTrain>>],
      [present |-> TRUE, validation_status |-> FALSE, message |-> <<MsgTestLast>>] }

-----------------------------------------------------------------------------
(* TrainPipeline (pipline/training_pipeline.py) *)

Running == outcome = "running"

RaiseFrom_Swallow(stage, message) ==
    /\ raised_by' = stage
    /\ error_message' = message
    /\ UNCHANGED <<outcome, pc>>

\* A stage wrapper's `except Exception: raise MyException`, then run_pipeline's
\* own (lines 184-185): the exception leaves run_pipeline.
RaiseFrom(stage, message) ==
    /\ outcome' = "raised"
    /\ raised_by' = stage
    /\ error_message' = message
    /\ pc' = "done"

Goto_SkipTransform(next) ==
    /\ pc' = IF next = "transform" THEN "train" ELSE next
    /\ UNCHANGED <<outcome, raised_by, error_message>>

\* run_pipeline goes on to its next statement.
Goto(next) ==
    /\ pc' = next
    /\ UNCHANGED <<outcome, raised_by, error_message>>

\* lines 47-59, called at line 154.
StartDataIngestion ==
    /\ Running /\ pc = "ingest"
    /\ invoked' = Append(invoked, "Ingest")
    /\ \E ok \in BOOLEAN :
         IF ok
         THEN /\ data_ingestion_artifact' =
                    [present |-> TRUE, trained_file_path |-> "train.csv",
                     test_file_path |-> "test.csv"]
              /\ Goto("validate")
         ELSE /\ UNCHANGED data_ingestion_artifact
              /\ RaiseFrom("Ingest", StageFailure)
    /\ UNCHANGED <<data_validation_artifact, data_transformation_artifact,
                   model_trainer_artifact, evaluate_model_response,
                   model_eval_artifact, model_pusher_artifact,
                   best_model_f1_score, s3_model, run, validation_vars, extra_vars>>

\* lines 61-76, called at line 157: the stage hands back a
\* DataValidationArtifact or raises.
StartDataValidation ==
    /\ Running /\ pc = "validate"
    /\ invoked' = Append(invoked, "Validate")
    /\ \/ \E artifact \in DataValidationArtifacts :
            /\ data_validation_artifact' = artifact
            /\ Goto("transform")
       \/ /\ UNCHANGED data_validation_artifact
          /\ RaiseFrom("Validate", StageFailure)
    /\ UNCHANGED <<data_ingestion_artifact, data_transformation_artifact,
                   model_trainer_artifact, evaluate_model_response,
                   model_eval_artifact, model_pusher_artifact,
                   best_model_f1_score, s3_model, run, validation_vars, extra_vars>>

\* lines 78-97, called unconditionally at lines 160-162.
StartDataTransformation ==
    /\ Running /\ pc = "transform"
    /\ invoked' = Append(invoked, "Transform")
    /\ \E rest_ok \in BOOLEAN :
         LET r == InitiateDataTransformation(data_validation_artifact, rest_ok)
         IN  IF r.raised
             THEN /\ UNCHANGED data_transformation_artifact
                  /\ RaiseFrom("Transform", r.error)
             ELSE /\ data_transformation_artifact' = r.artifact
                  /\ Goto("train")
    /\ UNCHANGED <<data_ingestion_artifact, data_validation_artifact,
                   model_trainer_artifact, evaluate_model_response,
                   model_eval_artifact, model_pusher_artifact,
                   best_model_f1_score, s3_model, run, validation_vars, extra_vars>>

\* lines 99-114, called at line 165.
StartModelTrainer ==
    /\ Running /\ pc = "train"
    /\ invoked' = Append(invoked, "Train")
    /\ \E fit_ok \in BOOLEAN, below \in BOOLEAN, f1 \in F1Values :
         LET r == InitiateModelTrainer(fit_ok, below, f1)
         IN  IF r.raised
             THEN /\ UNCHANGED model_trainer_artifact
                  /\ RaiseFrom("Train", r.error)
             ELSE /\ model_trainer_artifact' = r.artifact
                  /\ Goto("evaluate")
    /\ UNCHANGED <<data_ingestion_artifact, data_validation_artifact,
                   data_transformation_artifact, evaluate_model_response,
                   model_eval_artifact, model_pusher_artifact,
                   best_model_f1_score, s3_model, run, validation_vars, extra_vars>>

\* lines 116-130, called at lines 169-172: feature derivation and scoring may
\* raise (scoring_ok); a deployed baseline scores some F1 on the test frame.
StartModelEvaluation ==
    /\ Running /\ pc = "evaluate"
    /\ invoked' = Append(invoked, "Evaluate")
    /\ \E scoring_ok \in BOOLEAN, baseline_f1 \in F1Values :
         IF ~scoring_ok
         THEN /\ UNCHANGED <<evaluate_model_response, model_eval_artifact,
                             best_model_f1_score>>
              /\ RaiseFrom("Evaluate", StageFailure)
         ELSE LET best_model == GetBestModel(s3_model)
                  best == IF best_model.present THEN Some(baseline_f1) ELSE None
                  response == EvaluateModel(model_trainer_artifact.f1_score, best)
              IN  /\ best_model_f1_score' = best
                  /\ evaluate_model_response' = response
                  /\ model_eval_artifact' = InitiateModelEvaluation(response)
                  /\ Goto("branch")
    /\ UNCHANGED <<data_ingestion_artifact, data_validation_artifact,
                   data_transformation_artifact, model_trainer_artifact,
                   model_pusher_artifact, s3_model, run, validation_vars, extra_vars>>

StartModelPusher_Always ==
    /\ Running /\ pc = "branch"
    /\ invoked' = Append(invoked, "Promote")
    /\ model_pusher_artifact' = [present |-> TRUE, s3_model_path |-> "model.pkl"]
    /\ s3_model' = ModelPusherUpload(s3_model, run)
    /\ outcome' = "returned"
    /\ pc' = "done"
    /\ UNCHANGED <<raised_by, error_message>>
    /\ UNCHANGED <<data_ingestion_artifact, data_validation_artifact,
                   data_transformation_artifact, model_trainer_artifact,
                   evaluate_model_response, model_eval_artifact,
                   best_model_f1_score, run, validation_vars, extra_vars>>

\* lines 132-143, called at line 175 under `if is_model_accepted` (line 174);
\* lines 181-183 follow a successful upload, lines 184-185 a failed one.
StartModelPusher ==
    /\ Running /\ pc = "branch"
    /\ model_eval_artifact.is_model_accepted
    /\ invoked' = Append(invoked, "Promote")
    /\ \E upload_ok \in BOOLEAN :
         IF upload_ok
         THEN /\ model_pusher_artifact' =
                    [present |-> TRUE, s3_model_path |-> "model.pkl"]
              /\ s3_model' = ModelPusherUpload(s3_model, run)
              /\ outcome' = "returned"
              /\ pc' = "done"
              /\ UNCHANGED <<raised_by, error_message>>
         ELSE /\ UNCHANGED <<model_pusher_artifact, s3_model>>
              /\ RaiseFrom("Promote", StageFailure)
    /\ UNCHANGED <<data_ingestion_artifact, data_validation_artifact,
                   data_transformation_artifact, model_trainer_artifact,
                   evaluate_model_response, model_eval_artifact,
                   best_model_f1_score, run, validation_vars, extra_vars>>

ModelNotAccepted_Uploads ==
    /\ Running /\ pc = "branch"
    /\ ~model_eval_artifact.is_model_accepted
    /\ outcome' = "returned"
    /\ pc' = "done"
    /\ s3_model' = ModelPusherUpload(s3_model, run)
    /\ UNCHANGED <<raised_by, error_message, invoked, data_ingestion_artifact,
                   data_validation_artifact, data_transformation_artifact,
                   model_trainer_artifact, evaluate_model_response,
                   model_eval_artifact, model_pusher_artifact,
                   best_model_f1_score, run, validation_vars, extra_vars>>

\* lines 177-183: the else branch prints and run_pipeline returns None.
ModelNotAccepted ==
    /\ Running /\ pc = "branch"
    /\ ~model_eval_artifact.is_model_accepted
    /\ outcome' = "returned"
    /\ pc' = "done"
    /\ UNCHANGED <<raised_by, error_message, invoked, data_ingestion_artifact,
                   data_validation_artifact, data_transformation_artifact,
                   model_trainer_artifact, evaluate_model_response,
                   model_eval_artifact, model_pusher_artifact,
                   best_model_f1_score, s3_model, run, validation_vars, extra_vars>>

\* A later invocation of run_pipeline: new artifacts, the same model store.
NewRun ==
    /\ ~Running /\ run < MaxRuns
    /\ run' = run + 1
    /\ pc' = "ingest"
    /\ outcome' = "running"
    /\ raised_by' = "none"
    /\ error_message' = NoMessage
    /\ invoked' = <<>>
    /\ data_ingestion_artifact' = NoIngestionArtifact
    /\ data_validation_artifact' = NoValidationArtifact
    /\ data_transformation_artifact' = NoTransformationArtifact
    /\ model_trainer_artifact' = NoTrainerArtifact
    /\ evaluate_model_response' = NoEvaluateModelResponse
    /\ model_eval_artifact' = NoEvaluationArtifact
    /\ model_pusher_artifact' = NoPusherArtifact
    /\ best_model_f1_score' = None
    /\ UNCHANGED <<s3_model, validation_vars, extra_vars>>

PipelineInit ==
    /\ pc = "ingest"
    /\ outcome = "running"
    /\ raised_by = "none"
    /\ error_message = NoMessage
    /\ invoked = <<>>
    /\ data_ingestion_artifact = NoIngestionArtifact
    /\ data_validation_artifact = NoValidationArtifact
    /\ data_transformation_artifact = NoTransformationArtifact
    /\ model_trainer_artifact = NoTrainerArtifact
    /\ evaluate_model_response = NoEvaluateModelResponse
    /\ model_eval_artifact = NoEvaluationArtifact
    /\ model_pusher_artifact = NoPusherArtifact
    /\ best_model_f1_score = None
    /\ s3_model \in {None, Some(0)}
    /\ run = 1

ValidationIdle ==
    /\ dv_self = [constructed |-> FALSE, raised |-> FALSE, error |-> "", attrs |-> {}]
    /\ train_df = {}
    /\ test_df = {}
    /\ dv_result = [done |-> FALSE, loaded |-> FALSE, raised |-> FALSE, error |-> "",
                    validation_status |-> FALSE, message |-> <<>>]
    /\ validation_report = [written |-> FALSE, validation_status |-> FALSE,
                            message |-> <<>>]

NoFile == [written |-> FALSE, columns |-> {}, rows |-> {}]

NoIngestionResult == [done |-> FALSE, raised |-> FALSE, error |-> "", artifact |-> FALSE]

IngestionIdle ==
    /\ source = [reachable |-> TRUE, n |-> 0, columns |-> {}]
    /\ test_size = 25
    /\ ing_files = [feature_store |-> NoFile, train |-> NoFile, test |-> NoFile]
    /\ ing_log = <<>>
    /\ ing_result = NoIngestionResult

\* An unfitted ColumnTransformer (get_data_transformer_object).
NewPreprocessor ==
    [fitted |-> FALSE, fit_count |-> 0, n_samples_seen |-> 0,
     data_min |-> 0, data_max |-> 0]

NoTransformationFiles ==
    [preprocessor |-> [written |-> FALSE, obj |-> NewPreprocessor],
     train |-> [written |-> FALSE, arr |-> <<>>],
     test |-> [written |-> FALSE, arr |-> <<>>]]

NoFinal ==
    [done |-> FALSE, train_x |-> <<>>, train_y |-> <<>>,
     test_x |-> <<>>, test_y |-> <<>>]

NoTransformationResult ==
    [done |-> FALSE, raised |-> FALSE, error |-> <<>>, artifact |-> FALSE]

NoSliced ==
    [done |-> FALSE, x_train |-> <<>>, y_train |-> <<>>,
     x_test |-> <<>>, y_test |-> <<>>]

NoLoadedPreprocessing ==
    [done |-> FALSE, raised |-> FALSE, obj |-> NewPreprocessor, out |-> <<>>]

TransformationIdle ==
    /\ tr_input = [validation_artifact |-> NoValidationArtifact,
                   train_df |-> <<>>, test_df |-> <<>>]
    /\ tr_log = <<>>
    /\ tr_files = NoTransformationFiles
    /\ tr_final = NoFinal
    /\ tr_result = NoTransformationResult
    /\ mt_sliced = NoSliced
    /\ ev_preprocessing = NoLoadedPreprocessing

NoLocals == [fitted |-> FALSE, f1_score |-> 0, train_accuracy |-> None]

NoModelFile == [written |-> FALSE, preprocessing_object |-> FALSE,
                trained_model_object |-> FALSE]

NoTrainerResult ==
    [done |-> FALSE, raised |-> FALSE, error |-> <<>>, artifact |-> NoTrainerArtifact]

TrainerIdle ==
    /\ mt_config = [expected_accuracy |-> 0]
    /\ mt_log = <<>>
    /\ mt_locals = NoLocals
    /\ mt_model_file = NoModelFile
    /\ mt_result = NoTrainerResult

NoDerivation == [done |-> FALSE, raised |-> FALSE, error |-> "", columns |-> {}]

FeaturesIdle ==
    /\ fx_df = [columns |-> {}, vehicle_age |-> {}]
    /\ fx_schema = [drop_columns |-> "_id"]
    /\ fx_transformation = NoDerivation
    /\ fx_evaluation = NoDerivation

NoConstruction == [done |-> FALSE, raised |-> FALSE, error |-> "", created |-> FALSE]

\* line 23: `client = None`; nothing constructed yet.
ClientIdle ==
    /\ mc_client = None
    /\ mc_created = 0
    /\ mc_instances = <<>>
    /\ mc_last = NoConstruction

ExtraIdle ==
    IngestionIdle /\ TransformationIdle /\ TrainerIdle /\ FeaturesIdle /\ ClientIdle

Init == PipelineInit /\ ValidationIdle /\ ExtraIdle

Next ==
    \/ StartDataIngestion
    \/ StartDataValidation
    \/ StartDataTransformation
    \/ StartModelTrainer
    \/ StartModelEvaluation
    \/ StartModelPusher
    \/ ModelNotAccepted
    \/ NewRun

Spec == Init /\ [][Next]_vars

-----------------------------------------------------------------------------
(* Claims about run_pipeline and the acceptance rule *)

Invoked(stage) == \E i \in DOMAIN invoked : invoked[i] = stage

GateFailed ==
    data_validation_artifact.present /\ ~data_validation_artifact.validation_status

\* C1: in a run whose ValidationArtifact has passed == false, none of
\* Transformation, Training, Evaluation, Promotion is ever invoked.
C1_GateBlocksLaterStages ==
    GateFailed =>
        \A stage \in {"Transform", "Train", "Evaluate", "Promote"} : ~Invoked(stage)

\* C2: a run whose validation yields passed == false ends by returning (not
\* raising), reporting the validation message.
C2_GateFailureIsReturned ==
    (GateFailed /\ ~Running) =>
        /\ outcome = "returned"
        /\ error_message = data_validation_artifact.message

\* C3: Promotion is invoked only if the run's EvaluationArtifact has
\* accepted == true; on accepted == false Promotion is never invoked and the
\* run returns without an error.
C3_PromotionOnlyIfAccepted ==
    /\ Invoked("Promote") =>
          model_eval_artifact.present /\ model_eval_artifact.is_model_accepted
    /\ (model_eval_artifact.present /\ ~model_eval_artifact.is_model_accepted) =>
          /\ ~Invoked("Promote")
          /\ outcome # "raised"
          /\ Running => ENABLED ModelNotAccepted
          /\ ~Running => outcome = "returned"

\* baseline F1 0.80, trained F1 0.75: rejected, delta -0.05, run returned.
C3_Witness ==
    /\ model_eval_artifact.present
    /\ best_model_f1_score = Some(80)
    /\ model_trainer_artifact.f1_score = 75
    /\ ~model_eval_artifact.is_model_accepted
    /\ model_eval_artifact.changed_accuracy = -5
    /\ outcome = "returned"
    /\ ~Invoked("Promote")

\* C4: with t the trained F1 and e the baseline's F1 (0 when absent),
\* accepted == (t > e) and delta == t - e, in the response and in the artifact.
C4_AcceptanceRule ==
    evaluate_model_response.present =>
        LET t == model_trainer_artifact.f1_score
            e == IF best_model_f1_score.present THEN best_model_f1_score.value ELSE 0
        IN  /\ evaluate_model_response.is_model_accepted = (t > e)
            /\ evaluate_model_response.difference = t - e
            /\ model_eval_artifact.present
            /\ model_eval_artifact.is_model_accepted = (t > e)
            /\ model_eval_artifact.changed_accuracy = t - e

\* a tie with a present baseline is rejected, delta 0
C4_Witness ==
    /\ evaluate_model_response.present
    /\ best_model_f1_score = Some(80)
    /\ model_trainer_artifact.f1_score = 80
    /\ ~model_eval_artifact.is_model_accepted
    /\ model_eval_artifact.changed_accuracy = 0

NoBaselineEvaluated == model_eval_artifact.present /\ ~best_model_f1_score.present

\* C5 as stated: with no baseline present, every trained F1 is accepted.
C5_FirstModelAlwaysAccepted ==
    NoBaselineEvaluated => model_eval_artifact.is_model_accepted

\* C5 amended: with no baseline present, a completed evaluation accepts
\* exactly the trained F1 values above 0, and the run invokes Promotion
\* exactly for those.
C5_FirstModelAcceptedIffPositive ==
    NoBaselineEvaluated =>
        /\ model_eval_artifact.is_model_accepted = (model_trainer_artifact.f1_score > 0)
        /\ ~Running => (Invoked("Promote") <=> model_trainer_artifact.f1_score > 0)

\* trained F1 0.01 with no baseline is accepted and promoted
C5_Witness ==
    /\ NoBaselineEvaluated
    /\ model_trainer_artifact.f1_score = 1
    /\ model_eval_artifact.is_model_accepted
    /\ Invoked("Promote")
    /\ s3_model = Some(run)

IsPrefix(s, t) == Len(s) <= Len(t) /\ \A i \in 1..Len(s) : s[i] = t[i]

ArtifactOf(stage) ==
    CASE stage = "Ingest" -> data_ingestion_artifact.present
      [] stage = "Validate" -> data_validation_artifact.present
      [] stage = "Transform" -> data_transformation_artifact.present
      [] stage = "Train" -> model_trainer_artifact.present
      [] stage = "Evaluate" -> model_eval_artifact.present
      [] stage = "Promote" -> model_pusher_artifact.present

\* C6: stages are invoked in the order Ingest, Validate, Transform, Train,
\* Evaluate, Promote, each at most once, each only after the one before it
\* returned its artifact; a run that returns skipped nothing but Promote, and
\* Promote only on rejection.
C6_StageOrdering ==
    /\ IsPrefix(invoked, StageOrder)
    /\ \A i \in 2..Len(invoked) : ArtifactOf(invoked[i-1])
    /\ outcome = "returned" =>
          \/ (invoked = StageOrder /\ model_eval_artifact.is_model_accepted)
          \/ (invoked = SubSeq(StageOrder, 1, 5)
                 /\ ~model_eval_artifact.is_model_accepted)

C6_Witness ==
    /\ outcome = "returned"
    /\ invoked = StageOrder
    /\ model_pusher_artifact.present

AnyStage ==
    \/ StartDataIngestion \/ StartDataValidation \/ StartDataTransformation
    \/ StartModelTrainer \/ StartModelEvaluation \/ StartModelPusher

\* C7: a stage that raises ends the run at once with that failure: no stage
\* is invoked afterwards and the failed stage is not invoked again.
C7_FailFast ==
    raised_by # "none" =>
        /\ outcome = "raised"
        /\ invoked[Len(invoked)] = raised_by
        /\ \A i, j \in DOMAIN invoked : invoked[i] = invoked[j] => i = j
        /\ ~ArtifactOf(raised_by)
        /\ ~ENABLED AnyStage

C7_Witness ==
    /\ outcome = "raised"
    /\ raised_by = "Train"
    /\ error_message = ThresholdFailure
    /\ invoked = SubSeq(StageOrder, 1, 4)

\* C8: when Ingest..Evaluate succeeded with accepted == true and the upload
\* fails, run_pipeline still reports the run as successful.
C8_PromotionFailureKeepsRunSuccessful ==
    (/\ model_eval_artifact.present
     /\ model_eval_artifact.is_model_accepted
     /\ Invoked("Promote")
     /\ ~model_pusher_artifact.present
     /\ ~Running) => outcome = "returned"

-----------------------------------------------------------------------------
(* DataValidation (components/data_validation.py) *)

\* The schema file: `columns` (expected header), `numerical_column` and
\* `categorical_column` (required names).
SchemaConfig ==
    [columns |-> <<"id", "Gender", "Age", "Vehicle_Age", "Response">>,
     numerical_column |-> <<"Age">>,
     categorical_column |-> <<"Gender", "Vehicle_Age">>]

Elements(list) == {list[i] : i \in DOMAIN list}

\* A Python call's result: a value, or an exception.
PyReturn(v) == [raised |-> FALSE, error |-> "", value |-> v]

PyRaise(e) == [raised |-> TRUE, error |-> e, value |-> FALSE]

NoObject == [constructed |-> FALSE, raised |-> FALSE, error |-> "", attrs |-> {}]

\* __init__, lines 17-25: one parameter besides self; it assigns
\* data_validation_config, data_ingestion_artifact and schema_config.  A call
\* that also passes data_validation_config= (as start_data_validation does,
\* training_pipeline.py lines 70-71) cannot be bound: TypeError.
DataValidationNew(keywords) ==
    IF keywords = {"data_ingestion_artifact"}
    THEN [constructed |-> TRUE, raised |-> FALSE, error |-> "",
          attrs |-> {"data_validation_config", "data_ingestion_artifact",
                     "schema_config"}]
    ELSE [constructed |-> FALSE, raised |-> TRUE, error |-> "TypeError",
          attrs |-> {}]

\* validate_number_of_columns, lines 27-36: reads self._schema_config.
ValidateNumberOfColumns(self, dataframe) ==
    IF "_schema_config" \in self.attrs
    THEN PyReturn(Cardinality(dataframe) = Len(SchemaConfig.columns))
    ELSE PyRaise("AttributeError")

\* is_column_exist, lines 38-69: reads self.schema_config, collects the
\* missing names (they are logged), returns whether none is missing.
IsColumnExist(self, df) ==
    IF "schema_config" \notin self.attrs
    THEN PyRaise("AttributeError")
    ELSE LET missing_numerical_columns ==
                 SelectSeq(SchemaConfig.numerical_column, LAMBDA c : c \notin df)
             missing_categorical_columns ==
                 SelectSeq(SchemaConfig.categorical_column, LAMBDA c : c \notin df)
         IN  PyReturn(IF Len(missing_categorical_columns) > 0
                         \/ Len(missing_numerical_columns) > 0
                      THEN FALSE ELSE TRUE)

\* `validation_error_msg += clause` (lines 90, 96, 103, 109): the name must be
\* bound in the frame.
AugAssignMsg(frame, clause) ==
    IF "validation_error_msg" \in frame.bound
    THEN [frame EXCEPT !.validation_error_msg = Append(@, clause)]
    ELSE [frame EXCEPT !.raised = TRUE, !.error = "UnboundLocalError"]

\* `status = check(...); if not status: validation_error_msg += clause`
CheckStep(frame, status, clause) ==
    IF frame.raised THEN frame
    ELSE IF status.raised
    THEN [frame EXCEPT !.raised = TRUE, !.error = status.error]
    ELSE IF ~status.value THEN AugAssignMsg(frame, clause)
    ELSE frame

NoResult ==
    [done |-> FALSE, loaded |-> FALSE, raised |-> FALSE, error |-> "",
     validation_status |-> FALSE, message |-> NoMessage]

NoReport == [written |-> FALSE, validation_status |-> FALSE, message |-> NoMessage]

\* initiate_data_validation, lines 79-138.  Line 84 binds `err` (and nothing
\* else); lines 86-87 load the frames; lines 88-111 run the four checks;
\* line 113 reads validation_error_msg.
InitiateDataValidation(self, train, test, readable) ==
    LET f0 == [raised |-> ~readable,
               error |-> IF readable THEN "" ELSE "FileNotFoundError",
               bound |-> {"err"},
               validation_error_msg |-> NoMessage]
        f1 == CheckStep(f0, ValidateNumberOfColumns(self, train), MsgTrain)
        f2 == CheckStep(f1, ValidateNumberOfColumns(self, test), MsgTest)
        f3 == CheckStep(f2, IsColumnExist(self, train), MsgTrain)
        f4 == CheckStep(f3, IsColumnExist(self, test), MsgTestLast)
        f5 == IF f4.raised \/ "validation_error_msg" \in f4.bound THEN f4
              ELSE [f4 EXCEPT !.raised = TRUE, !.error = "UnboundLocalError"]
    IN  IF f5.raised
        THEN [done |-> TRUE, loaded |-> readable, raised |-> TRUE,
              error |-> f5.error, validation_status |-> FALSE,
              message |-> NoMessage]
        ELSE [done |-> TRUE, loaded |-> readable, raised |-> FALSE, error |-> "",
              validation_status |-> Len(f5.validation_error_msg) = 0,
              message |-> f5.validation_error_msg]

\* DataValidation(...) as a caller writes it: with the ingestion artifact
\* alone, or as start_data_validation writes it.
DataValidationConstruct ==
    /\ ~dv_self.constructed /\ ~dv_self.raised
    /\ \/ dv_self' = DataValidationNew({"data_ingestion_artifact"})
       \/ dv_self' = DataValidationNew({"data_ingestion_artifact",
                                        "data_validation_config"})
    /\ UNCHANGED <<train_df, test_df, dv_result, validation_report, pipeline_vars, extra_vars>>

\* initiate_data_validation(): lines 121-131 write the report once the
\* artifact is built.
DataValidationInitiate ==
    /\ dv_self.constructed /\ ~dv_result.done
    /\ \E readable \in BOOLEAN :
         LET r == InitiateDataValidation(dv_self, train_df, test_df, readable)
         IN  /\ dv_result' = r
             /\ validation_report' =
                    IF r.raised THEN validation_report
                    ELSE [written |-> TRUE,
                          validation_status |-> r.validation_status,
                          message |-> r.message]
    /\ UNCHANGED <<dv_self, train_df, test_df, pipeline_vars, extra_vars>>

ValidationInit ==
    /\ dv_self = NoObject
    /\ train_df \in SUBSET ColumnUniverse
    /\ test_df \in SUBSET ColumnUniverse
    /\ dv_result = NoResult
    /\ validation_report = NoReport

InitValidation == PipelineInit /\ s3_model = None /\ ValidationInit /\ ExtraIdle

NextValidation == DataValidationConstruct \/ DataValidationInitiate

SpecValidation == InitValidation /\ [][NextValidation]_vars

-----------------------------------------------------------------------------
(* Claims about DataValidation *)

SchemaColumns == Elements(SchemaConfig.columns)

RequiredColumns ==
    Elements(SchemaConfig.numerical_column) \cup Elements(SchemaConfig.categorical_column)

CountOk(df) == Cardinality(df) = Len(SchemaConfig.columns)

PresenceOk(df) == RequiredColumns \subseteq df

Validated == dv_result.done /\ dv_result.loaded

\* The column names a message names: its clauses are the fixed texts
\* MsgTrain, MsgTest, MsgTestLast, none of which holds a column name.
ColumnsNamedIn(message) ==
    {c \in ColumnUniverse : \E i \in DOMAIN message : message[i] = c}

\* C9: initiate_data_validation returns an artifact whose passed flag is the
\* conjunction of the four checks, with a clause per failing check, and
\* passed == true with an empty message for frames matching the schema.
C9_PassedIsConjunctionOfChecks ==
    Validated =>
        /\ ~dv_result.raised
        /\ dv_result.validation_status =
              (CountOk(train_df) /\ CountOk(test_df)
               /\ PresenceOk(train_df) /\ PresenceOk(test_df))
        /\ Len(dv_result.message) =
              Cardinality({k \in 1..4 :
                  \/ k = 1 /\ ~CountOk(train_df)
                  \/ k = 2 /\ ~CountOk(test_df)
                  \/ k = 3 /\ ~PresenceOk(train_df)
                  \/ k = 4 /\ ~PresenceOk(test_df)})
        /\ (train_df = SchemaColumns /\ test_df = SchemaColumns) =>
              (dv_result.validation_status /\ dv_result.message = NoMessage)

\* C10: for frames lacking a required column, validation returns
\* passed == false and its message names every missing column.
C10_MissingColumnsAllNamed ==
    (Validated /\ ~(PresenceOk(train_df) /\ PresenceOk(test_df))) =>
        /\ ~dv_result.raised
        /\ ~dv_result.validation_status
        /\ (RequiredColumns \ train_df) \cup (RequiredColumns \ test_df)
              \subseteq ColumnsNamedIn(dv_result.message)

\* C11: once both datasets are loaded, the stage writes the JSON report and
\* returns an artifact whether the checks pass or fail; a failing check gives
\* passed == false and a written report, never an exception.
C11_ReportAndArtifactRegardless ==
    Validated =>
        /\ ~dv_result.raised
        /\ validation_report.written
        /\ validation_report.validation_status = dv_result.validation_status
        /\ ~(CountOk(train_df) /\ CountOk(test_df)
             /\ PresenceOk(train_df) /\ PresenceOk(test_df))
              => ~dv_result.validation_status

-----------------------------------------------------------------------------
(* DataIngestion (components/data_ingestion.py) and Proj1Data *)

CeilDiv(a, b) == (a + b - 1) \div b

\* export_collection_as_dataframe, proj1_data.py lines 33-60: list(find())
\* raises on an unreachable store; a frame of the documents' fields, without
\* "_id"; no documents give a frame with no columns.
ExportCollectionAsDataframe(src) ==
    IF ~src.reachable
    THEN [raised |-> TRUE, error |-> "ServerSelectionTimeoutError",
          columns |-> {}, rows |-> {}]
    ELSE [raised |-> FALSE, error |-> "",
          columns |-> IF src.n = 0 THEN {} ELSE src.columns \ {"_id"},
          rows |-> 1..src.n]

ValidateShuffleSplit_AllowEmpty(n_samples, size) ==
    LET n_test == CeilDiv(size * n_samples, 100)
    IN  [raised |-> FALSE, n_train |-> n_samples - n_test, n_test |-> n_test]

\* train_test_split's sizes for a float test_size (line 46):
\* n_test = ceil(test_size * n), n_train = n - n_test, ValueError when the
\* train set would be empty.
ValidateShuffleSplit(n_samples, size) ==
    LET n_test == CeilDiv(size * n_samples, 100)
        n_train == n_samples - n_test
    IN  IF size <= 0 \/ size >= 100 \/ n_train = 0
        THEN [raised |-> TRUE, n_train |-> 0, n_test |-> 0]
        ELSE [raised |-> FALSE, n_train |-> n_train, n_test |-> n_test]

\* The test partitions a shuffle with a seed may pick: n_test of the rows.
TestChoices(rows, size) ==
    LET sizes == ValidateShuffleSplit(Cardinality(rows), size)
    IN  IF sizes.raised THEN {{}}
        ELSE {t \in SUBSET rows : Cardinality(t) = sizes.n_test}

TrainTestSplit_Overlap(rows, size, test_rows) ==
    LET sizes == ValidateShuffleSplit(Cardinality(rows), size)
    IN  [raised |-> sizes.raised, train_set |-> rows, test_set |-> test_rows]

\* train_test_split(dataframe, test_size, random_state=22, shuffle=True),
\* line 46: the test partition and the remaining rows.
TrainTestSplit(rows, size, test_rows) ==
    LET sizes == ValidateShuffleSplit(Cardinality(rows), size)
    IN  [raised |-> sizes.raised,
         train_set |-> IF sizes.raised THEN {} ELSE rows \ test_rows,
         test_set |-> IF sizes.raised THEN {} ELSE test_rows]

IngestionFiles(feature_store, train, test) ==
    [feature_store |-> feature_store, train |-> train, test |-> test]

Csv(columns, rows) == [written |-> TRUE, columns |-> columns, rows |-> rows]

IngestionOutcome(raised, error, files, log) ==
    [raised |-> raised, error |-> error, files |-> files, log |-> log,
     artifact |-> ~raised]

\* initiate_data_ingestion, lines 59-71: export_data_into_feature_store
\* (lines 23-41: fetch, write the frame to the feature store, then drop 'id'),
\* split_data_as_train_test (lines 43-57: split, write train, write test),
\* then the artifact.  fail_at names the file write that raises, if any.
InitiateDataIngestion(src, size, fail_at, test_rows) ==
    LET dataframe == ExportCollectionAsDataframe(src)
        split == TrainTestSplit(dataframe.rows, size, test_rows)
        columns == dataframe.columns \ {"id"}
        fs == Csv(dataframe.columns, dataframe.rows)
        fetched == <<"fetch">>
        stored == fetched \o <<"write feature_store", "drop id">>
    IN  IF dataframe.raised
        THEN IngestionOutcome(TRUE, dataframe.error,
                              IngestionFiles(NoFile, NoFile, NoFile), <<>>)
        ELSE IF fail_at = "feature_store"
        THEN IngestionOutcome(TRUE, "OSError",
                              IngestionFiles(NoFile, NoFile, NoFile), fetched)
        ELSE IF split.raised
        THEN IngestionOutcome(TRUE, "ValueError",
                              IngestionFiles(fs, NoFile, NoFile), stored)
        ELSE IF fail_at = "train"
        THEN IngestionOutcome(TRUE, "OSError",
                              IngestionFiles(fs, NoFile, NoFile),
                              stored \o <<"split">>)
        ELSE IF fail_at = "test"
        THEN IngestionOutcome(TRUE, "OSError",
                              IngestionFiles(fs, Csv(columns, split.train_set), NoFile),
                              stored \o <<"split", "write train">>)
        ELSE IngestionOutcome(FALSE, "",
                              IngestionFiles(fs, Csv(columns, split.train_set),
                                             Csv(columns, split.test_set)),
                              stored \o <<"split", "write train", "write test",
                                          "return artifact">>)

\* DataIngestion().initiate_data_ingestion()
DataIngestionInitiate ==
    /\ ~ing_result.done
    /\ \E fail_at \in {"none", "feature_store", "train", "test"},
          test_rows \in TestChoices(1..source.n, test_size) :
         LET r == InitiateDataIngestion(source, test_size, fail_at, test_rows)
         IN  /\ ing_files' = r.files
             /\ ing_log' = r.log
             /\ ing_result' = [done |-> TRUE, raised |-> r.raised,
                               error |-> r.error, artifact |-> r.artifact]
    /\ UNCHANGED <<source, test_size, pipeline_vars, validation_vars, stage_vars>>

IngestionInit ==
    /\ source \in [reachable : BOOLEAN, n : 0..MaxRows,
                   columns : SUBSET {"_id", "id", "Gender"}]
    /\ test_size \in TestSizes
    /\ ing_files = IngestionFiles(NoFile, NoFile, NoFile)
    /\ ing_log = <<>>
    /\ ing_result = NoIngestionResult

InitIngestion ==
    /\ PipelineInit /\ s3_model = None /\ ValidationIdle /\ IngestionInit
    /\ TransformationIdle /\ TrainerIdle /\ FeaturesIdle /\ ClientIdle

NextIngestion == DataIngestionInitiate

SpecIngestion == InitIngestion /\ [][NextIngestion]_vars

-----------------------------------------------------------------------------
(* Claims about DataIngestion *)

SplitWritten == ing_result.done /\ ing_files.train.written /\ ing_files.test.written

\* C15: for a non-empty dataset D and a test fraction in (0,1) for which the
\* split succeeds, the written train and test partitions are disjoint,
\* together hold exactly the rows of D, and their sizes add up to len(D)
\* (1000 rows at 0.2 give 800 and 200).
C15_SplitConservation ==
    /\ SplitWritten =>
          /\ ing_files.train.rows \cap ing_files.test.rows = {}
          /\ ing_files.train.rows \cup ing_files.test.rows = 1..source.n
          /\ Cardinality(ing_files.train.rows) + Cardinality(ing_files.test.rows)
                = source.n
    /\ LET sizes == ValidateShuffleSplit(1000, 20)
       IN  ~sizes.raised /\ sizes.n_train = 800 /\ sizes.n_test = 200

C15_Witness ==
    /\ SplitWritten
    /\ source.n = 4 /\ test_size = 25
    /\ Cardinality(ing_files.train.rows) = 3
    /\ Cardinality(ing_files.test.rows) = 1

\* C16: on an unreachable store or a collection with zero records,
\* initiate_data_ingestion raises and returns no artifact.
C16_EmptyOrUnreachableSourceFails ==
    (ing_result.done /\ (~source.reachable \/ source.n = 0)) =>
        /\ ing_result.raised
        /\ ~ing_result.artifact
        /\ ~ing_files.train.written
        /\ ~ing_files.test.written

\* zero records: the split raises after the (empty) feature store was written
C16_Witness ==
    /\ ing_result.done
    /\ source.reachable /\ source.n = 0
    /\ ing_result.raised /\ ing_result.error = "ValueError"
    /\ ing_files.feature_store.written

-----------------------------------------------------------------------------
(* run_pipeline with the Validation stage as written *)

\* start_data_validation, training_pipeline.py lines 61-76, with the
\* DataValidation of components/data_validation.py: line 70-71 construct it
\* with two keywords, line 72 runs it, lines 75-76 re-raise.
StartDataValidationAsWritten ==
    /\ Running /\ pc = "validate"
    /\ invoked' = Append(invoked, "Validate")
    /\ LET obj == DataValidationNew({"data_ingestion_artifact",
                                     "data_validation_config"})
       IN  /\ dv_self' = obj
           /\ IF obj.raised
              THEN /\ UNCHANGED <<data_validation_artifact, dv_result,
                                  validation_report>>
                   /\ RaiseFrom("Validate", <<obj.error>>)
              ELSE \E readable \in BOOLEAN :
                     LET r == InitiateDataValidation(obj, train_df, test_df, readable)
                     IN  /\ dv_result' = r
                         /\ IF r.raised
                            THEN /\ UNCHANGED <<data_validation_artifact,
                                                validation_report>>
                                 /\ RaiseFrom("Validate", <<r.error>>)
                            ELSE /\ data_validation_artifact' =
                                       [present |-> TRUE,
                                        validation_status |-> r.validation_status,
                                        message |-> r.message]
                                 /\ validation_report' =
                                       [written |-> TRUE,
                                        validation_status |-> r.validation_status,
                                        message |-> r.message]
                                 /\ Goto("transform")
    /\ UNCHANGED <<data_ingestion_artifact, data_transformation_artifact,
                   model_trainer_artifact, evaluate_model_response,
                   model_eval_artifact, model_pusher_artifact,
                   best_model_f1_score, s3_model, run, train_df, test_df,
                   extra_vars>>

InitRun == PipelineInit /\ ValidationInit /\ ExtraIdle

\* Nothing after line 157 of run_pipeline is reached: the stages that follow
\* are the actions of Spec.
NextRun == StartDataIngestion \/ StartDataValidationAsWritten

SpecRun == InitRun /\ [][NextRun]_vars

\* C14: a run whose train and test datasets match the schema exactly and in
\* which no collaborator fails passes validation and goes on to invoke the
\* Evaluation stage; so it cannot end without having invoked it.
C14_HappyPathReachesEvaluation ==
    (/\ ~Running
     /\ train_df = SchemaColumns /\ test_df = SchemaColumns
     /\ raised_by # "Ingest"
     /\ dv_result.error # "FileNotFoundError") =>
        /\ data_validation_artifact.present
        /\ data_validation_artifact.validation_status
        /\ Invoked("Evaluate")

-----------------------------------------------------------------------------
(* The model store across runs *)

\* C18: across runs the model store's baseline changes only in the Promotion
\* step of a run whose candidate was accepted; no other stage writes it, and a
\* run that fails or whose candidate is rejected ends with the baseline it
\* started with.
C18_BaselineChangesOnlyByPromotion ==
    [][ /\ s3_model' # s3_model =>
            /\ pc = "branch"
            /\ model_eval_artifact.is_model_accepted
            /\ invoked' = Append(invoked, "Promote")
            /\ model_pusher_artifact'.present
            /\ outcome' = "returned"
        /\ (outcome' = "raised" \/ (pc' = "done" /\ ~model_pusher_artifact'.present))
              => s3_model' = s3_model ]_vars

\* the first run promoted its model; the second run failed and the store still
\* holds the first run's model
C18_Witness ==
    /\ run = 2
    /\ outcome = "raised"
    /\ s3_model = Some(1)

-----------------------------------------------------------------------------
(* DataTransformation step by step (components/data_transformation.py),    *)
(* with the two readers of its files: the trainer's slicing and            *)
(* Evaluation's use of the persisted transformer.                          *)
(* A frame is a sequence of rows; a feature matrix is a sequence of rows,  *)
(* each a sequence of numbers.  Scaled values are integers in hundredths.  *)

\* Largest number of rows in the train frame and in the test frame.
MaxSamples == 2

\* Rows a CSV written by ingestion can hold.
Samples ==
    { [Gender |-> "Female", Age |-> 20, Response |-> 0],
      [Gender |-> "Male",   Age |-> 60, Response |-> 1],
      [Gender |-> "Male",   Age |-> 20, Response |-> 1] }

Frames == UNION { [1..k -> Samples] : k \in 0..MaxSamples }

PreconditionHolds_Always(validation_artifact) == TRUE

\* line 108: `if not self.data_validation_artifact.validation_status`
PreconditionHolds(validation_artifact) == validation_artifact.validation_status

\* line 66: map({'Female': 0, 'Male': 1})
MapGender(gender) == IF gender = "Female" THEN 0 ELSE 1

\* lines 114/117 and 121-126: the target column dropped, Gender mapped;
\* feature columns (Gender, Age).
InputFeatures(df) ==
    [i \in 1..Len(df) |-> <<MapGender(df[i].Gender), df[i].Age>>]

\* lines 115/118
TargetFeature(df) == [i \in 1..Len(df) |-> df[i].Response]

ColumnMin(X, c) ==
    CHOOSE m \in {X[i][c] : i \in 1..Len(X)} : \A i \in 1..Len(X) : m <= X[i][c]

ColumnMax(X, c) ==
    CHOOSE m \in {X[i][c] : i \in 1..Len(X)} : \A i \in 1..Len(X) : m >= X[i][c]

\* MinMaxScaler.fit on the scaled column (Age, column 2): the fitted
\* parameters are data_min_, data_max_ and n_samples_seen_.
Fit(pre, X) ==
    [fitted |-> TRUE, fit_count |-> pre.fit_count + 1, n_samples_seen |-> Len(X),
     data_min |-> ColumnMin(X, 2), data_max |-> ColumnMax(X, 2)]

\* MinMaxScaler.transform of one value: (x - data_min) / (data_max - data_min),
\* a zero range being replaced by 1.
Scale(pre, x) ==
    ((x - pre.data_min) * 100)
        \div (IF pre.data_max = pre.data_min THEN 1 ELSE pre.data_max - pre.data_min)

\* ColumnTransformer(..., remainder='passthrough') (lines 50-56): the scaled
\* columns come first, the passed-through ones after them.
Apply(pre, X) == [i \in 1..Len(X) |-> <<Scale(pre, X[i][2]), X[i][1]>>]

\* line 130: Pipeline.fit_transform; sklearn rejects an array of 0 samples.
FitTransform(pre, X) ==
    IF Len(X) = 0
    THEN [raised |-> TRUE, error |-> <<"ValueError">>, pre |-> pre, out |-> <<>>]
    ELSE LET fitted == Fit(pre, X)
         IN  [raised |-> FALSE, error |-> <<>>, pre |-> fitted,
              out |-> Apply(fitted, X)]

Transform_Refits(pre, X) == FitTransform(pre, X)

\* line 131 and model_evaluation.py line 113: Pipeline.transform reads the
\* fitted parameters and leaves them as they are.
Transform(pre, X) ==
    IF ~pre.fitted
    THEN [raised |-> TRUE, error |-> <<"NotFittedError">>, pre |-> pre, out |-> <<>>]
    ELSE IF Len(X) = 0
    THEN [raised |-> TRUE, error |-> <<"ValueError">>, pre |-> pre, out |-> <<>>]
    ELSE [raised |-> FALSE, error |-> <<>>, pre |-> pre, out |-> Apply(pre, X)]

RemoveAt(seq, k) ==
    IF k = 0 THEN seq
    ELSE [i \in 1..(Len(seq) - 1) |-> IF i < k THEN seq[i] ELSE seq[i + 1]]

\* lines 133-139: SMOTEENN.fit_resample hands back a feature matrix and a
\* target vector of equal length, row i of one belonging to entry i of the
\* other; here it removes at most one sample (drop = 0: none).
FitResample(X, y, drop) == [X |-> RemoveAt(X, drop), y |-> RemoveAt(y, drop)]

NpC_TargetFirst(features, target) ==
    [i \in 1..Len(features) |-> <<target[i]>> \o features[i]]

\* lines 141-142: np.c_[features, np.array(target)]
NpC(features, target) ==
    [i \in 1..Len(features) |-> Append(features[i], target[i])]

\* arr[:, :-1]
AllButLastColumn(arr) ==
    [i \in 1..Len(arr) |-> SubSeq(arr[i], 1, Len(arr[i]) - 1)]

\* arr[:, -1]
LastColumn(arr) == [i \in 1..Len(arr) |-> arr[i][Len(arr[i])]]

TransformationFailPoints ==
    {"none", "read train", "read test", "resample",
     "save preprocessor", "save train", "save test"}

TransformationOutcome(raised, error, log, files, final) ==
    [raised |-> raised, error |-> error, log |-> log, files |-> files,
     final |-> final, artifact |-> ~raised]

\* initiate_data_transformation, lines 105-155.  fail_at names the
\* collaborator call that raises, if any; every exception leaves through
\* line 155.
InitiateDataTransformationIO(validation_artifact, train, test, fail_at, drop_train, drop_test) ==
    LET Fail(error, log, files, final) ==
            TransformationOutcome(TRUE, error, log, files, final)
        log_read == <<"read train", "read test">>
        fit == FitTransform(NewPreprocessor, InputFeatures(train))
        log_fit == log_read \o <<"fit_transform train">>
        trans == Transform(fit.pre, InputFeatures(test))
        log_trans == log_fit \o <<"transform test">>
        preprocessor == trans.pre
        train_final == FitResample(fit.out, TargetFeature(train), drop_train)
        test_final == FitResample(trans.out, TargetFeature(test), drop_test)
        final == [done |-> TRUE,
                  train_x |-> train_final.X, train_y |-> train_final.y,
                  test_x |-> test_final.X, test_y |-> test_final.y]
        train_arr == NpC(train_final.X, train_final.y)
        test_arr == NpC(test_final.X, test_final.y)
        files1 == [NoTransformationFiles EXCEPT
                     !.preprocessor = [written |-> TRUE, obj |-> preprocessor]]
        files2 == [files1 EXCEPT !.train = [written |-> TRUE, arr |-> train_arr]]
        files3 == [files2 EXCEPT !.test = [written |-> TRUE, arr |-> test_arr]]
        log1 == log_trans \o <<"save preprocessor">>
        log2 == log1 \o <<"save train">>
        log3 == log2 \o <<"save test">>
    IN  IF ~PreconditionHolds(validation_artifact)
        THEN Fail(validation_artifact.message, <<>>, NoTransformationFiles, NoFinal)
        ELSE IF fail_at = "read train"
        THEN Fail(StageFailure, <<"read train">>, NoTransformationFiles, NoFinal)
        ELSE IF fail_at = "read test"
        THEN Fail(StageFailure, log_read, NoTransformationFiles, NoFinal)
        ELSE IF fit.raised
        THEN Fail(fit.error, log_fit, NoTransformationFiles, NoFinal)
        ELSE IF trans.raised
        THEN Fail(trans.error, log_trans, NoTransformationFiles, NoFinal)
        ELSE IF fail_at = "resample"
        THEN Fail(StageFailure, log_trans, NoTransformationFiles, NoFinal)
        ELSE IF fail_at = "save preprocessor"
        THEN Fail(StageFailure, log1, NoTransformationFiles, final)
        ELSE IF fail_at = "save train"
        THEN Fail(StageFailure, log2, files1, final)
        ELSE IF fail_at = "save test"
        THEN Fail(StageFailure, log3, files2, final)
        ELSE TransformationOutcome(FALSE, <<>>, log3, files3, final)

\* DataTransformation(...).initiate_data_transformation() on tr_input.
DataTransformationInitiate ==
    /\ ~tr_result.done
    /\ \E fail_at \in TransformationFailPoints,
          drop_train \in 0..Len(tr_input.train_df),
          drop_test \in 0..Len(tr_input.test_df) :
         LET r == InitiateDataTransformationIO(tr_input.validation_artifact,
                      tr_input.train_df, tr_input.test_df,
                      fail_at, drop_train, drop_test)
         IN  /\ tr_log' = r.log
             /\ tr_files' = r.files
             /\ tr_final' = r.final
             /\ tr_result' = [done |-> TRUE, raised |-> r.raised,
                              error |-> r.error, artifact |-> r.artifact]
    /\ UNCHANGED <<tr_input, mt_sliced, ev_preprocessing, pipeline_vars,
                   validation_vars, ingestion_vars, trainer_vars, features_vars, client_vars>>

ModelTrainerSlice_Truncates ==
    /\ tr_result.done /\ ~tr_result.raised
    /\ ~mt_sliced.done
    /\ mt_sliced' = [done |-> TRUE,
                     x_train |-> AllButLastColumn(tr_files.train.arr),
                     y_train |-> LastColumn(tr_files.train.arr),
                     x_test |-> AllButLastColumn(tr_files.test.arr),
                     y_test |-> LastColumn(tr_files.test.arr)]
    /\ tr_files' = [tr_files EXCEPT !.train.arr = <<>>]
    /\ UNCHANGED <<tr_input, tr_log, tr_final, tr_result,
                   ev_preprocessing, pipeline_vars, validation_vars,
                   ingestion_vars, trainer_vars, features_vars, client_vars>>

\* model_trainer.py lines 86-87 load the two arrays, lines 40-41 slice them
\* (line 100 slices train_arr the same way).
ModelTrainerSlice ==
    /\ tr_result.done /\ ~tr_result.raised
    /\ ~mt_sliced.done
    /\ mt_sliced' = [done |-> TRUE,
                     x_train |-> AllButLastColumn(tr_files.train.arr),
                     y_train |-> LastColumn(tr_files.train.arr),
                     x_test |-> AllButLastColumn(tr_files.test.arr),
                     y_test |-> LastColumn(tr_files.test.arr)]
    /\ UNCHANGED <<tr_input, tr_log, tr_files, tr_final, tr_result,
                   ev_preprocessing, pipeline_vars, validation_vars,
                   ingestion_vars, trainer_vars, features_vars, client_vars>>

\* model_evaluation.py lines 99-113: the test frame is read again, its
\* features derived, the persisted transformer loaded and applied.
ModelEvaluationTransform ==
    /\ tr_result.done /\ ~tr_result.raised
    /\ ~ev_preprocessing.done
    /\ LET preprocessing == tr_files.preprocessor.obj
           r == Transform(preprocessing, InputFeatures(tr_input.test_df))
       IN  ev_preprocessing' = [done |-> TRUE, raised |-> r.raised,
                                obj |-> r.pre, out |-> r.out]
    /\ UNCHANGED <<tr_input, tr_log, tr_files, tr_final, tr_result, mt_sliced,
                   pipeline_vars, validation_vars, ingestion_vars,
                   trainer_vars, features_vars, client_vars>>

TransformationInit ==
    /\ tr_input \in [validation_artifact : DataValidationArtifacts,
                     train_df : Frames, test_df : Frames]
    /\ tr_log = <<>>
    /\ tr_files = NoTransformationFiles
    /\ tr_final = NoFinal
    /\ tr_result = NoTransformationResult
    /\ mt_sliced = NoSliced
    /\ ev_preprocessing = NoLoadedPreprocessing

InitTransformation ==
    /\ PipelineInit /\ s3_model = None /\ ValidationIdle /\ IngestionIdle
    /\ TransformationInit /\ TrainerIdle /\ FeaturesIdle /\ ClientIdle

NextTransformation ==
    \/ DataTransformationInitiate
    \/ ModelTrainerSlice
    \/ ModelEvaluationTransform

SpecTransformation == InitTransformation /\ [][NextTransformation]_vars

\* C12: invoked with a validation artifact that did not pass,
\* initiate_data_transformation raises with the validation message, having
\* read neither dataset, written no file and returned no artifact.
C12_PreconditionFailsBeforeAnyIO ==
    (tr_result.done /\ ~tr_input.validation_artifact.validation_status) =>
        /\ tr_result.raised
        /\ tr_result.error = tr_input.validation_artifact.message
        /\ tr_log = <<>>
        /\ tr_files = NoTransformationFiles
        /\ ~tr_result.artifact

\* a failed validation naming the training frame, with non-empty frames at hand
C12_Witness ==
    /\ tr_result.done
    /\ tr_input.validation_artifact.message = <<MsgTrain>>
    /\ tr_result.error = <<MsgTrain>>
    /\ Len(tr_input.train_df) > 0 /\ Len(tr_input.test_df) > 0

Occurrences(log, entry) == Cardinality({i \in 1..Len(log) : log[i] = entry})

FittedOnTrain == Fit(NewPreprocessor, InputFeatures(tr_input.train_df))

\* C17: the transformer is fitted once, on the train features; the test
\* features are only transformed; the persisted parameters are those fitted on
\* train, and transforming the test frame, in Transformation and in
\* Evaluation, leaves them as they were.
C17_FitOnTrainOnly ==
    /\ Occurrences(tr_log, "fit_transform train") <= 1
    /\ \A i \in 1..Len(tr_log) :
          tr_log[i] = "transform test" =>
              i > 1 /\ tr_log[i - 1] = "fit_transform train"
    /\ tr_files.preprocessor.written =>
          /\ tr_files.preprocessor.obj = FittedOnTrain
          /\ tr_files.preprocessor.obj.fit_count = 1
    /\ ev_preprocessing.done =>
          /\ ev_preprocessing.obj = FittedOnTrain
          /\ tr_files.preprocessor.obj = FittedOnTrain

\* every train row has Age 20, a test row has Age 60: the persisted maximum
\* is still 20 after Evaluation transformed the test frame
C17_Witness ==
    /\ ev_preprocessing.done /\ ~ev_preprocessing.raised
    /\ \A i \in 1..Len(tr_input.train_df) : tr_input.train_df[i].Age = 20
    /\ \E i \in 1..Len(tr_input.test_df) : tr_input.test_df[i].Age = 60
    /\ tr_files.preprocessor.obj.data_max = 20
    /\ ev_preprocessing.obj.data_max = 20

\* C20: each persisted array holds the feature columns followed by the target
\* as its last column, and the trainer's slicing gives back the feature matrix
\* and the target vector that Transformation concatenated.
C20_PositionalContract ==
    /\ tr_files.train.written =>
          \A i \in 1..Len(tr_files.train.arr) :
              LET row == tr_files.train.arr[i]
              IN  /\ Len(row) = Len(tr_final.train_x[i]) + 1
                  /\ row[Len(row)] = tr_final.train_y[i]
                  /\ SubSeq(row, 1, Len(row) - 1) = tr_final.train_x[i]
    /\ tr_files.test.written =>
          \A i \in 1..Len(tr_files.test.arr) :
              LET row == tr_files.test.arr[i]
              IN  /\ Len(row) = Len(tr_final.test_x[i]) + 1
                  /\ row[Len(row)] = tr_final.test_y[i]
                  /\ SubSeq(row, 1, Len(row) - 1) = tr_final.test_x[i]
    /\ mt_sliced.done =>
          /\ mt_sliced.x_train = tr_final.train_x
          /\ mt_sliced.y_train = tr_final.train_y
          /\ mt_sliced.x_test = tr_final.test_x
          /\ mt_sliced.y_test = tr_final.test_y

\* two train rows with different targets and features, sliced by the trainer
C20_Witness ==
    /\ mt_sliced.done
    /\ Len(mt_sliced.x_train) = 2
    /\ mt_sliced.y_train = <<0, 1>>
    /\ mt_sliced.x_train[2] = <<100, 1>>
    /\ Len(mt_sliced.x_test) > 0

-----------------------------------------------------------------------------
(* ModelTrainer step by step (components/model_trainer.py).                *)
(* Accuracies are integers in hundredths, as F1 scores are.                *)

\* model_train_config.expected_accuracy
ExpectedAccuracies == {0, 50, 60, 100}

\* accuracy_score of the fitted model on the training array
TrainAccuracies == {0, 50, 59, 60, 100}

BelowExpectedAccuracy_Inclusive(train_accuracy, expected_accuracy) ==
    train_accuracy <= expected_accuracy

\* line 101: `if train_accuracy < self.model_train_config.expected_accuracy`
BelowExpectedAccuracy(train_accuracy, expected_accuracy) ==
    train_accuracy < expected_accuracy

TrainerFailPoints == {"none", "load arrays", "fit", "load object", "save"}

TrainerOutcome(raised, error, log, locals, model_file, artifact) ==
    [raised |-> raised, error |-> error, log |-> log, locals |-> locals,
     model_file |-> model_file, artifact |-> artifact]

\* initiate_model_trainer, lines 75-120.  fail_at names the collaborator call
\* that raises, if any; f1 and train_accuracy are what the fitted forest
\* scores on the test and on the training array.
InitiateModelTrainerIO(expected_accuracy, fail_at, f1, train_accuracy) ==
    LET Fail(error, log, locals) ==
            TrainerOutcome(TRUE, error, log, locals, NoModelFile, NoTrainerArtifact)
        log_load == <<"load train array", "load test array">>
        log_fit == log_load \o <<"fit">>
        fitted == [fitted |-> TRUE, f1_score |-> f1, train_accuracy |-> None]
        log_obj == log_fit \o <<"load preprocessing object">>
        scored == [fitted EXCEPT !.train_accuracy = Some(train_accuracy)]
        log_save == log_obj \o <<"save model">>
        my_model == [written |-> TRUE, preprocessing_object |-> TRUE,
                     trained_model_object |-> TRUE]
    IN  IF fail_at = "load arrays"
        THEN Fail(StageFailure, <<"load train array">>, NoLocals)
        ELSE IF fail_at = "fit"
        THEN Fail(StageFailure, log_fit, NoLocals)
        ELSE IF fail_at = "load object"
        THEN Fail(StageFailure, log_obj, fitted)
        ELSE IF BelowExpectedAccuracy(train_accuracy, expected_accuracy)
        THEN Fail(ThresholdFailure, log_obj, scored)
        ELSE IF fail_at = "save"
        THEN Fail(StageFailure, log_save, scored)
        ELSE TrainerOutcome(FALSE, <<>>, log_save \o <<"return artifact">>,
                 scored, my_model,
                 [present |-> TRUE, trained_model_file_path |-> "model.pkl",
                  f1_score |-> f1])

\* ModelTrainer(...).initiate_model_trainer()
ModelTrainerInitiate ==
    /\ ~mt_result.done
    /\ \E fail_at \in TrainerFailPoints, f1 \in F1Values,
          train_accuracy \in TrainAccuracies :
         LET r == InitiateModelTrainerIO(mt_config.expected_accuracy, fail_at,
                                         f1, train_accuracy)
         IN  /\ mt_log' = r.log
             /\ mt_locals' = r.locals
             /\ mt_model_file' = r.model_file
             /\ mt_result' = [done |-> TRUE, raised |-> r.raised,
                              error |-> r.error, artifact |-> r.artifact]
    /\ UNCHANGED <<mt_config, pipeline_vars, validation_vars, ingestion_vars,
                   transformation_vars, features_vars, client_vars>>

TrainerInit ==
    /\ mt_config \in [expected_accuracy : ExpectedAccuracies]
    /\ mt_log = <<>>
    /\ mt_locals = NoLocals
    /\ mt_model_file = NoModelFile
    /\ mt_result = NoTrainerResult

InitTrainer ==
    /\ PipelineInit /\ s3_model = None /\ ValidationIdle /\ IngestionIdle
    /\ TransformationIdle /\ TrainerInit /\ FeaturesIdle /\ ClientIdle

NextTrainer == ModelTrainerInitiate

SpecTrainer == InitTrainer /\ [][NextTrainer]_vars

Position(log, entry) == CHOOSE i \in 1..Len(log) : log[i] = entry

\* C13: once the training accuracy is computed, an accuracy below
\* expected_accuracy makes initiate_model_trainer raise with no bundle written
\* and no artifact; at or above it, an artifact is returned only after the
\* bundle (transformer and model) was written, and nothing but a failing save
\* stands between the threshold and the artifact.
C13_AccuracyThreshold ==
    (mt_result.done /\ mt_locals.train_accuracy.present) =>
        LET train_accuracy == mt_locals.train_accuracy.value
            expected_accuracy == mt_config.expected_accuracy
        IN  /\ train_accuracy < expected_accuracy =>
                  /\ mt_result.raised
                  /\ mt_result.error = ThresholdFailure
                  /\ ~mt_model_file.written
                  /\ ~mt_result.artifact.present
                  /\ Occurrences(mt_log, "save model") = 0
            /\ train_accuracy >= expected_accuracy =>
                  /\ mt_result.error # ThresholdFailure
                  /\ Occurrences(mt_log, "save model") = 1
                  /\ mt_result.raised <=> ~mt_model_file.written
                  /\ mt_result.artifact.present <=> mt_model_file.written
                  /\ mt_model_file.written =>
                        /\ mt_model_file.preprocessing_object
                        /\ mt_model_file.trained_model_object
                        /\ Position(mt_log, "save model")
                              < Position(mt_log, "return artifact")

\* an accuracy equal to the threshold: bundle written, artifact returned
C13_Witness ==
    /\ mt_result.done
    /\ mt_config.expected_accuracy = 60
    /\ mt_locals.train_accuracy = Some(60)
    /\ mt_model_file.written
    /\ mt_result.artifact.present

-----------------------------------------------------------------------------
(* Feature derivation: DataTransformation's four steps (lines 62-103,      *)
(* applied at lines 121-126) and ModelEvaluation's four methods (lines     *)
(* 60-89, applied at lines 102-105), on the same held-out frame.           *)
(* A frame is its set of columns together with the values held by its two  *)
(* string columns.                                                         *)

FeatureColumns == {"_id", "id", "Gender", "Age", "Vehicle_Age"}

GenderLevels == {"Female", "Male", "Other"}

\* in the order pd.get_dummies sorts them
VehicleAgeLevels == <<"1-2 Year", "< 1 Year", "> 2 Years">>

FeatureFrames ==
    { f \in [columns : SUBSET FeatureColumns,
             gender : SUBSET GenderLevels,
             vehicle_age : SUBSET Elements(VehicleAgeLevels)] :
        /\ "Gender" \notin f.columns => f.gender = {}
        /\ "Vehicle_Age" \notin f.columns => f.vehicle_age = {} }

\* drop_columns of the schema file: a scalar or a one-element list
DropColumnsConfigs ==
    { [drop_columns |-> "_id", is_list |-> FALSE],
      [drop_columns |-> "id", is_list |-> FALSE],
      [drop_columns |-> "_id", is_list |-> TRUE] }

Derived(df) == [raised |-> FALSE, error |-> "", df |-> df]

DerivationError(error, df) == [raised |-> TRUE, error |-> error, df |-> df]

\* df['Gender'].map({'Female': 0, 'Male': 1}).astype(int): a value outside the
\* mapping becomes NaN, which astype(int) rejects.
MapGenderValues(df) ==
    IF df.gender \subseteq {"Female", "Male"}
    THEN Derived(df)
    ELSE DerivationError("ValueError", df)

\* data_transformation.py lines 62-69
DataTransformation_map_gender_column(df) ==
    IF "Gender" \in df.columns THEN MapGenderValues(df) ELSE Derived(df)

\* model_evaluation.py lines 60-64: df['Gender'] is read unconditionally
ModelEvaluation_map_gender_column(df) ==
    IF "Gender" \notin df.columns
    THEN DerivationError("KeyError", df)
    ELSE MapGenderValues(df)

\* data_transformation.py lines 95-103: `drop_column in df.columns` hashes its
\* left operand, which a list does not allow.
DataTransformation_drop_id_column(df, schema) ==
    IF schema.is_list
    THEN DerivationError("TypeError", df)
    ELSE IF schema.drop_columns \in df.columns
    THEN Derived([df EXCEPT !.columns = @ \ {schema.drop_columns}])
    ELSE Derived(df)

\* model_evaluation.py lines 84-89
ModelEvaluation_drop_id_column(df) ==
    IF "_id" \in df.columns
    THEN Derived([df EXCEPT !.columns = @ \ {"_id"}])
    ELSE Derived(df)

LevelRank(level) == CHOOSE i \in 1..Len(VehicleAgeLevels) : VehicleAgeLevels[i] = level

DummyColumn(level) ==
    CASE level = "1-2 Year" -> "Vehicle_Age_1-2 Year"
      [] level = "< 1 Year" -> "Vehicle_Age_< 1 Year"
      [] level = "> 2 Years" -> "Vehicle_Age_> 2 Years"

\* pd.get_dummies(df, drop_first=True): each string column is replaced by one
\* indicator column per value it holds, the first value in sorted order left
\* out.  Gender is numeric by now.
CreateDummyColumns(df) ==
    LET kept == { l \in df.vehicle_age :
                    \E other \in df.vehicle_age : LevelRank(other) < LevelRank(l) }
    IN  Derived([df EXCEPT !.columns = (@ \ {"Vehicle_Age"})
                                         \cup { DummyColumn(l) : l \in kept }])

RenameColumn(column) ==
    CASE column = "Vehicle_Age_< 1 Year" -> "Vehicle_Age_lt_1_Year"
      [] column = "Vehicle_Age_> 2 Years" -> "Vehicle_Age_gt_2_Years"
      [] OTHER -> column

\* _rename_columns of both classes
RenameColumns(df) ==
    Derived([df EXCEPT !.columns = { RenameColumn(c) : c \in @ }])

Finish(last) ==
    [done |-> TRUE, raised |-> last.raised, error |-> last.error,
     columns |-> IF last.raised THEN {} ELSE last.df.columns]

\* data_transformation.py lines 121-126: each step runs on what the previous
\* one returned; an exception ends the derivation.
DataTransformationSteps(df, schema) ==
    LET mapped == DataTransformation_map_gender_column(df)
        dropped == IF mapped.raised THEN mapped
                   ELSE DataTransformation_drop_id_column(mapped.df, schema)
        dummies == IF dropped.raised THEN dropped ELSE CreateDummyColumns(dropped.df)
        renamed == IF dummies.raised THEN dummies ELSE RenameColumns(dummies.df)
    IN  Finish(renamed)

\* model_evaluation.py lines 102-105
ModelEvaluationSteps(df) ==
    LET mapped == ModelEvaluation_map_gender_column(df)
        dropped == IF mapped.raised THEN mapped
                   ELSE ModelEvaluation_drop_id_column(mapped.df)
        dummies == IF dropped.raised THEN dropped ELSE CreateDummyColumns(dropped.df)
        renamed == IF dummies.raised THEN dummies ELSE RenameColumns(dummies.df)
    IN  Finish(renamed)

DataTransformationDerive ==
    /\ ~fx_transformation.done
    /\ fx_transformation' = DataTransformationSteps(fx_df, fx_schema)
    /\ UNCHANGED <<fx_df, fx_schema, fx_evaluation, pipeline_vars,
                   validation_vars, ingestion_vars, transformation_vars,
                   trainer_vars, client_vars>>

ModelEvaluationDerive ==
    /\ ~fx_evaluation.done
    /\ fx_evaluation' = ModelEvaluationSteps(fx_df)
    /\ UNCHANGED <<fx_df, fx_schema, fx_transformation, pipeline_vars,
                   validation_vars, ingestion_vars, transformation_vars,
                   trainer_vars, client_vars>>

FeaturesInit ==
    /\ fx_df \in FeatureFrames
    /\ fx_schema \in DropColumnsConfigs
    /\ fx_transformation = NoDerivation
    /\ fx_evaluation = NoDerivation

InitFeatures ==
    /\ PipelineInit /\ s3_model = None /\ ValidationIdle /\ IngestionIdle
    /\ TransformationIdle /\ TrainerIdle /\ FeaturesInit /\ ClientIdle

NextFeatures == DataTransformationDerive \/ ModelEvaluationDerive

SpecFeatures == InitFeatures /\ [][NextFeatures]_vars

\* C19: on every held-out frame, ModelEvaluation's four derivation methods
\* give what DataTransformation's four steps give: the same frame, the same
\* column dropped, and nothing done when the Gender column is absent.
C19_SameFeatureDerivation ==
    (fx_transformation.done /\ fx_evaluation.done) =>
        /\ fx_evaluation.raised = fx_transformation.raised
        /\ fx_evaluation.columns = fx_transformation.columns

-----------------------------------------------------------------------------
(* Ingestion: order of the steps and the identifier columns *)

IdentifierColumns == {"_id", "id"}

PersistedFiles == {ing_files.feature_store, ing_files.train, ing_files.test}

-----------------------------------------------------------------------------
(* The artifact files of one run: the components one after the other, in   *)
(* the order run_pipeline calls them (lines 154-172).  A stage starts once  *)
(* the one before it is over, whatever its result, which admits every run   *)
(* of run_pipeline and more.                                               *)

ValidationOver == dv_self.raised \/ dv_result.done

ArtifactsInit ==
    /\ PipelineInit /\ s3_model = None /\ FeaturesIdle /\ ClientIdle
    /\ source \in [reachable : {TRUE}, n : {0, MaxRows}, columns : {{"id", "Gender"}}]
    /\ test_size = 25
    /\ ing_files = IngestionFiles(NoFile, NoFile, NoFile)
    /\ ing_log = <<>>
    /\ ing_result = NoIngestionResult
    /\ dv_self = NoObject
    /\ train_df = Elements(SchemaConfig.columns)
    /\ test_df = Elements(SchemaConfig.columns)
    /\ dv_result = NoResult
    /\ validation_report = NoReport
    /\ tr_input \in [validation_artifact : DataValidationArtifacts,
                     train_df : {f \in Frames : Len(f) = 1},
                     test_df : {f \in Frames : Len(f) = 1}]
    /\ tr_log = <<>>
    /\ tr_files = NoTransformationFiles
    /\ tr_final = NoFinal
    /\ tr_result = NoTransformationResult
    /\ mt_sliced = NoSliced
    /\ ev_preprocessing = NoLoadedPreprocessing
    /\ mt_config = [expected_accuracy |-> 60]
    /\ mt_log = <<>>
    /\ mt_locals = NoLocals
    /\ mt_model_file = NoModelFile
    /\ mt_result = NoTrainerResult

NextArtifacts ==
    \/ DataIngestionInitiate
    \/ (ing_result.done /\ DataValidationConstruct)
    \/ (ing_result.done /\ DataValidationInitiate)
    \/ (ValidationOver /\ DataTransformationInitiate)
    \/ ModelTrainerSlice
    \/ (mt_sliced.done /\ ModelTrainerInitiate)
    \/ (mt_result.done /\ ModelEvaluationTransform)

SpecArtifacts == ArtifactsInit /\ [][NextArtifacts]_vars

WriteEntries ==
    {"write feature_store", "write train", "write test",
     "save preprocessor", "save train", "save test", "save model"}

-----------------------------------------------------------------------------
(* MongoDBClient (configuration/mongo_db_connection.py) and its user       *)
(* Proj1Data (data_access/proj1_data.py), constructed one after another in *)
(* one process.  A connection object is named by the order of creation.    *)

\* Number of constructions explored.
MaxConstructions == 4

DatabaseNames == {"DATABASE_NAME", "other"}

ClientOutcome(raised, error, class_client, instance, created) ==
    [raised |-> raised, error |-> error, class_client |-> class_client,
     instance |-> instance, created |-> created]

NoInstance == [client |-> 0, database |-> ""]

MongoDBClientNew_AlwaysCreates(class_client, database_name, url_set, create_ok, fresh) ==
    IF ~url_set
    THEN ClientOutcome(TRUE, "ValueError", class_client, NoInstance, FALSE)
    ELSE IF ~create_ok
    THEN ClientOutcome(TRUE, "ConfigurationError", class_client, NoInstance, FALSE)
    ELSE ClientOutcome(FALSE, "", Some(fresh),
                       [client |-> fresh, database |-> database_name], TRUE)

\* MongoDBClient.__init__, lines 25-43: line 28 reads the URL, lines 29-30
\* raise when it is unset, lines 33-34 create the connection when the class
\* attribute is None (pymongo may reject the URL: create_ok), lines 38-39 bind
\* the shared connection and the database to the instance.
MongoDBClientNew(class_client, database_name, url_set, create_ok, fresh) ==
    IF ~url_set
    THEN ClientOutcome(TRUE, "ValueError", class_client, NoInstance, FALSE)
    ELSE IF ~class_client.present
    THEN IF ~create_ok
         THEN ClientOutcome(TRUE, "ConfigurationError", class_client, NoInstance, FALSE)
         ELSE ClientOutcome(FALSE, "", Some(fresh),
                            [client |-> fresh, database |-> database_name], TRUE)
    ELSE ClientOutcome(FALSE, "", class_client,
                       [client |-> class_client.value, database |-> database_name],
                       FALSE)

\* What a construction leaves behind; holder is the object that keeps the new
\* MongoDBClient (the caller, or a Proj1Data as its mongo_client).
Constructed(r, holder) ==
    /\ mc_client' = r.class_client
    /\ mc_created' = IF r.created THEN mc_created + 1 ELSE mc_created
    /\ mc_instances' = IF r.raised THEN mc_instances
                       ELSE Append(mc_instances,
                                   [client |-> r.instance.client,
                                    database |-> r.instance.database,
                                    holder |-> holder])
    /\ mc_last' = [done |-> TRUE, raised |-> r.raised, error |-> r.error,
                   created |-> r.created]
    /\ UNCHANGED <<pipeline_vars, validation_vars, ingestion_vars,
                   transformation_vars, trainer_vars, features_vars>>

\* MongoDBClient(database_name)
MongoDBClientConstruct ==
    /\ Len(mc_instances) < MaxConstructions
    /\ \E database_name \in DatabaseNames, url_set \in BOOLEAN, create_ok \in BOOLEAN :
         Constructed(MongoDBClientNew(mc_client, database_name, url_set,
                                      create_ok, mc_created + 1),
                     "caller")

\* Proj1Data(), proj1_data.py lines 18-23: MongoDBClient() with the default
\* database name.
Proj1DataConstruct ==
    /\ Len(mc_instances) < MaxConstructions
    /\ \E url_set \in BOOLEAN, create_ok \in BOOLEAN :
         Constructed(MongoDBClientNew(mc_client, "DATABASE_NAME", url_set,
                                      create_ok, mc_created + 1),
                     "Proj1Data")

ClientInit == ClientIdle

InitClient ==
    /\ PipelineInit /\ s3_model = None /\ ValidationIdle /\ IngestionIdle
    /\ TransformationIdle /\ TrainerIdle /\ FeaturesIdle /\ ClientInit

NextClient == MongoDBClientConstruct \/ Proj1DataConstruct

SpecClient == InitClient /\ [][NextClient]_vars

\* C23: however many MongoDBClient objects are constructed in the process, at
\* most one connection object is ever created, it is created by the first
\* construction that succeeds, every instance holds that same connection, and
\* a construction that fails because the URL is unset creates none.
C23_SingleSharedConnection ==
    /\ mc_created <= 1
    /\ mc_client.present <=> mc_created = 1
    /\ mc_created = 1 <=> Len(mc_instances) > 0
    /\ \A i \in 1..Len(mc_instances) :
          /\ mc_client.present
          /\ mc_instances[i].client = mc_client.value
    /\ mc_last.error = "ValueError" => (mc_last.raised /\ ~mc_last.created)

\* three instances on two databases share the one connection, and the latest
\* construction failed on an unset URL
C23_Witness ==
    /\ Len(mc_instances) = 3
    /\ mc_instances[3].holder = "Proj1Data"
    /\ mc_instances[1].database # mc_instances[2].database
    /\ mc_created = 1
    /\ mc_last.error = "ValueError"

====
